---- MODULE Spec2Model ----
(***************************************************************************)
(* Model of escape2safe: the name codec of escape_to_safe_slug.py (escape, *)
(* revert_escape, escape_slug, safe_slug, strip_and_hash and the validity  *)
(* predicates) and the directory migration of processing_dir.py            *)
(* (is_old_schema, process_subdir_name, rename_subdirs).                    *)
(*                                                                         *)
(* A character is its Unicode code point, a string a sequence of code      *)
(* points, a path a sequence of names below the prod root.                 *)
(***************************************************************************)
EXTENDS Integers, Sequences, FiniteSets, TLC

VARIABLES
    arg_name,        \* safe_slug: the name argument
    arg_max_length,  \* safe_slug: the max_length argument (None when omitted)
    slug,            \* safe_slug: the branch taken and the result, once called
    SAFE,            \* escape_to_safe_slug.SAFE, the default safe set object
    text,            \* the text handed to escape and escape_slug
    esc,             \* the last escape call: its arguments and its outcome
    rev,             \* revert_escape of the last escape result
    old,             \* is_old_schema(escape_slug(text))
    fs0,             \* the tree under the prod root before any run
    fs,              \* the tree under the prod root now
    listing,         \* os.listdir(base_dir) as the current run read it
    phase,           \* which run of rename_subdirs is going on
    pos,             \* index in listing of the next entry of the loop
    planDry,         \* the plan the dry run selected for each entry
    planForce,       \* the plan the force run selected for each entry
    planShadow,      \* the plan a dry run selects on the tree the force run reached
    last,            \* what the last call of process_subdir_name did
    interrupted      \* the merge the force run was killed in the middle of

slugVars == <<arg_name, arg_max_length, slug>>
codecVars == <<SAFE, text, esc, rev, old>>
migVars == <<fs0, fs, listing, phase, pos, planDry, planForce, planShadow, last,
             interrupted>>
vars == <<slugVars, codecVars, migVars>>

(***************************************************************************)
(* Characters and strings                                                  *)
(***************************************************************************)
Hyphen == 45
Newline == 10

\* string.ascii_lowercase, string.digits, string.ascii_letters, string.hexdigits
ascii_lowercase == 97..122
ascii_uppercase == 65..90
digits == 48..57
hexdigits == digits \cup (97..102) \cup (65..70)

\* escape_to_safe_slug.py module constants
_escape_slug_safe_chars == ascii_lowercase \cup digits
ESCAPE_CHAR == Hyphen
_alpha_lower == ascii_lowercase
_alphanum_lower == ascii_lowercase \cup digits
_hash_length == 8

\* the value None of an optional argument (no length is negative)
None == -1

\* s[:n] of Python, n possibly negative
Slice(s, n) ==
    LET k == IF n >= 0 THEN (IF n < Len(s) THEN n ELSE Len(s))
             ELSE (IF Len(s) + n > 0 THEN Len(s) + n ELSE 0)
    IN  SubSeq(s, 1, k)

RECURSIVE Concat(_)
\* "".join(list)
Concat(ss) == IF ss = << >> THEN << >> ELSE Head(ss) \o Concat(Tail(ss))

\* str.lower() of one character: ASCII and Latin-1 capitals fold to +32
lower_char(c) ==
    IF c \in ascii_uppercase THEN c + 32
    ELSE IF c \in (192..222) \ {215} THEN c + 32
    ELSE c

\* str.lower()
lower(s) == [i \in 1..Len(s) |-> lower_char(s[i])]

\* c.encode("utf8"): the UTF-8 bytes of one code point
utf8_encode(c) ==
    IF c < 128 THEN <<c>>
    ELSE IF c < 2048 THEN <<192 + (c \div 64), 128 + (c % 64)>>
    ELSE IF c < 65536
         THEN <<224 + (c \div 4096), 128 + ((c \div 64) % 64), 128 + (c % 64)>>
    ELSE <<240 + (c \div 262144), 128 + ((c \div 4096) % 64),
           128 + ((c \div 64) % 64), 128 + (c % 64)>>

\* one uppercase hexadecimal digit
HexDigit(d) == IF d < 10 THEN 48 + d ELSE 55 + d

\* f"{byte:X}": uppercase hexadecimal without padding
FormatX(byte) ==
    IF byte < 16 THEN <<HexDigit(byte)>>
    ELSE <<HexDigit(byte \div 16), HexDigit(byte % 16)>>

\* value of one hexadecimal digit character
HexVal(c) ==
    IF c \in digits THEN c - 48
    ELSE IF c \in 97..102 THEN c - 87
    ELSE c - 55

\* int(hex_value, 16) for two hexadecimal digits
int16(h) == 16 * HexVal(h[1]) + HexVal(h[2])

(***************************************************************************)
(* Escape codec                                                            *)
(***************************************************************************)
\* _escape_char(c, escape_char)
_escape_char(c, escape_char) ==
    LET bytes == utf8_encode(c)
    IN  Concat([i \in 1..Len(bytes) |-> <<escape_char>> \o FormatX(bytes[i])])

\* the loop of escape() over to_escape with the effective safe set
escape_chars(to_escape, safe, escape_char) ==
    Concat([i \in 1..Len(to_escape) |->
              IF to_escape[i] \in safe THEN <<to_escape[i]>>
              ELSE _escape_char(to_escape[i], escape_char)])

\* escape(to_escape, safe, escape_char, allow_collisions): the exception
\* raised ("" if none), the returned string, and the safe set object after
\* the call (escape mutates the set it is handed)
escape(to_escape, safe, escape_char, allow_collisions) ==
    IF allow_collisions
    THEN [err |-> "", val |-> escape_chars(to_escape, safe \cup {escape_char}, escape_char),
          safe |-> safe \cup {escape_char}]
    ELSE IF escape_char \in safe
    THEN \* warnings.warn(...): the module never imports warnings
         [err |-> "NameError", val |-> << >>, safe |-> safe]
    ELSE [err |-> "", val |-> escape_chars(to_escape, safe, escape_char), safe |-> safe]

\* escape_slug(name)
escape_slug(name) ==
    lower(escape(name, _escape_slug_safe_chars, Hyphen, FALSE).val)

RECURSIVE revert_from(_, _, _)
\* the while loop of revert_escape from position i (1-based)
revert_from(escaped_str, i, escape_char) ==
    IF i > Len(escaped_str) THEN [err |-> "", val |-> << >>]
    ELSE IF escaped_str[i] = escape_char
    THEN LET hex_value == SubSeq(escaped_str, i + 1,
                                 IF i + 2 <= Len(escaped_str) THEN i + 2 ELSE Len(escaped_str))
         IN  IF Len(hex_value) = 2 /\ \A k \in 1..2 : hex_value[k] \in hexdigits
             THEN LET byte_value == int16(hex_value)
                  IN  IF byte_value >= 128
                      THEN \* bytes([byte_value]).decode("utf-8") of a lone high byte
                           [err |-> "UnicodeDecodeError", val |-> << >>]
                      ELSE LET rest == revert_from(escaped_str, i + 3, escape_char)
                           IN  [err |-> rest.err,
                                val |-> IF rest.err = "" THEN <<byte_value>> \o rest.val
                                        ELSE << >>]
             ELSE LET rest == revert_from(escaped_str, i + 1, escape_char)
                  IN  [err |-> rest.err,
                       val |-> IF rest.err = "" THEN <<escaped_str[i]>> \o rest.val
                               ELSE << >>]
    ELSE LET rest == revert_from(escaped_str, i + 1, escape_char)
         IN  [err |-> rest.err,
              val |-> IF rest.err = "" THEN <<escaped_str[i]>> \o rest.val ELSE << >>]

\* revert_escape(escaped_str, escape_char)
revert_escape(escaped_str, escape_char) == revert_from(escaped_str, 1, escape_char)

(***************************************************************************)
(* Validity predicates                                                     *)
(***************************************************************************)
\* _object_pattern: ^[a-z0-9\-]+$ ($ also matches before a final newline)
_object_pattern(s) ==
    LET body == IF Len(s) > 0 /\ s[Len(s)] = Newline THEN SubSeq(s, 1, Len(s) - 1) ELSE s
    IN  /\ Len(body) >= 1
        /\ \A i \in 1..Len(body) : body[i] \in ascii_lowercase \cup digits \cup {Hyphen}

\* _is_valid_general(s, starts_with, ends_with, pattern, min_length, max_length)
\* as is_valid_object_name calls it
_is_valid_general(s, starts_with, ends_with, min_length, max_length) ==
    IF min_length # 0 /\ Len(s) < min_length THEN FALSE
    ELSE IF max_length # 0 /\ Len(s) > max_length THEN FALSE
    ELSE IF ~(Len(s) > 0 /\ s[1] \in starts_with) THEN FALSE
    ELSE IF ~(Len(s) > 0 /\ s[Len(s)] \in ends_with) THEN FALSE
    ELSE IF ~_object_pattern(s) THEN FALSE
    ELSE TRUE

ObjMaxLength == 63

\* is_valid_object_name(s)
is_valid_object_name(s) ==
    _is_valid_general(s, _alpha_lower, _alphanum_lower, 1, ObjMaxLength)

\* is_valid_default(s)
is_valid_default(s) == is_valid_object_name(s)

(***************************************************************************)
(* Slug deriver                                                            *)
(***************************************************************************)
RECURSIVE sub_non_alphanum(_, _)
\* _non_alphanum_pattern.sub("-", s): every maximal run of characters outside
\* [a-z0-9] becomes one '-'; inRun says the previous character was in a run
sub_non_alphanum(s, inRun) ==
    IF s = << >> THEN << >>
    ELSE IF Head(s) \in ascii_lowercase \cup digits
    THEN <<Head(s)>> \o sub_non_alphanum(Tail(s), FALSE)
    ELSE IF inRun THEN sub_non_alphanum(Tail(s), TRUE)
    ELSE <<Hyphen>> \o sub_non_alphanum(Tail(s), TRUE)

RECURSIVE lstrip(_, _)
\* s.lstrip(c)
lstrip(s, c) == IF s # << >> /\ Head(s) = c THEN lstrip(Tail(s), c) ELSE s

RECURSIVE rstrip(_, _)
\* s.rstrip(c)
rstrip(s, c) ==
    IF s # << >> /\ s[Len(s)] = c THEN rstrip(SubSeq(s, 1, Len(s) - 1), c) ELSE s

\* _extract_safe_name without its "ensure starts with lowercase letter" step
prefix_x_missing(safe_name, max_length) == safe_name

\* the "x-" prefix step of _extract_safe_name
prefix_x(safe_name, max_length) ==
    IF safe_name # << >> /\ ~(safe_name[1] \in _alpha_lower)
    THEN <<120, Hyphen>> \o Slice(safe_name, max_length - 2)
    ELSE safe_name

\* _extract_safe_name(name, max_length)
_extract_safe_name(name, max_length) ==
    LET subbed == sub_non_alphanum(lower(name), FALSE)
        cut == rstrip(Slice(lstrip(subbed, Hyphen), max_length), Hyphen)
        pre == prefix_x(cut, max_length)
    IN  IF pre = << >> THEN <<120>> ELSE pre

RECURSIVE poly(_, _)
\* a 16-bit rolling checksum of a string
poly(s, h) == IF s = << >> THEN h ELSE poly(Tail(s), (h * 31 + Head(s) + 7) % 65536)

\* one lowercase hexadecimal digit
hexdigest_digit(d) == IF d < 10 THEN 48 + d ELSE 87 + d

\* hashlib.sha256(name.encode("utf8")).hexdigest()[:_hash_length]: eight
\* lowercase hexadecimal digits fixed by the name; SHA-256 itself is
\* replaced by a small checksum with the same output format
name_hash(name) ==
    LET h == poly(name, 40503)
        g == (h * 13 + Len(name) * 257 + 4099) % 65536
    IN  <<hexdigest_digit(h \div 4096), hexdigest_digit((h \div 256) % 16),
          hexdigest_digit((h \div 16) % 16), hexdigest_digit(h % 16),
          hexdigest_digit(g \div 4096), hexdigest_digit((g \div 256) % 16),
          hexdigest_digit((g \div 16) % 16), hexdigest_digit(g % 16)>>

\* strip_and_hash(name, max_length)
strip_and_hash(name, max_length) ==
    LET name_length == max_length - (_hash_length + 3)
    IN  IF name_length < 1 THEN [err |-> "ValueError", val |-> << >>]
        ELSE [err |-> "",
              val |-> _extract_safe_name(name, name_length)
                      \o <<Hyphen, Hyphen, Hyphen>> \o name_hash(name)]

\* needle in haystack
Contains(s, sub) ==
    \E i \in 1..(Len(s) - Len(sub) + 1) : SubSeq(s, i, i + Len(sub) - 1) = sub

\* max_length or 32
or_32(max_length) == IF max_length = None \/ max_length = 0 THEN 32 ELSE max_length

\* which return statement of safe_slug is taken
safe_slug_branch(name, max_length) ==
    IF Contains(name, <<Hyphen, Hyphen>>) THEN "hash_reserved"
    ELSE IF is_valid_default(name) /\ (max_length = None \/ Len(name) <= max_length)
    THEN "identity"
    ELSE "hash_invalid"

\* safe_slug(name, is_valid=is_valid_default, max_length)
safe_slug(name, max_length) ==
    IF safe_slug_branch(name, max_length) = "identity"
    THEN [err |-> "", val |-> name]
    ELSE strip_and_hash(name, or_32(max_length))

(***************************************************************************)
(* Calls of safe_slug on drawn names                                       *)
(***************************************************************************)
MaxFirst == 20
MaxMid == 2
MaxEnd == 2
MaxMaxLength == 13

\* 'a', '1', '-', 'A'
SlugAlphabet == {97, 49, Hyphen, 65}

\* all strings over alphabet of length at most n
StringsUpTo(alphabet, n) == UNION {[1..k -> alphabet] : k \in 0..n}

\* the character c repeated k times
Repeat(c, k) == [i \in 1..k |-> c]

\* lengths of the first run: short ones, and those that bring the name to the
\* length limit of is_valid_object_name
FirstCounts == (0..MaxFirst) \cup ((ObjMaxLength - 3)..ObjMaxLength)

\* the names safe_slug is called on: three runs of one character each
SlugNames ==
    {Repeat(c1, k1) \o Repeat(c2, k2) \o Repeat(c3, k3) :
        c1 \in SlugAlphabet, k1 \in FirstCounts,
        c2 \in SlugAlphabet, k2 \in 0..MaxMid,
        c3 \in SlugAlphabet, k3 \in 0..MaxEnd}

NotCalled == [called |-> FALSE, branch |-> "", err |-> "", val |-> << >>]

\* the slug variables when no safe_slug call is modelled
IdleSlug == arg_name = << >> /\ arg_max_length = None /\ slug = NotCalled

NoLast == [name |-> << >>, plan |-> "", force |-> FALSE, moved |-> FALSE,
           renamed |-> FALSE, target |-> << >>, before |-> << >>]
NoInterrupt == [happened |-> FALSE, name |-> << >>, id |-> << >>, target_id |-> << >>]

\* the migration variables when no run is modelled
IdleMig ==
    /\ fs0 = << >> /\ fs = << >> /\ listing = << >> /\ phase = "idle" /\ pos = 1
    /\ planDry = << >> /\ planForce = << >> /\ planShadow = << >>
    /\ last = NoLast /\ interrupted = NoInterrupt

\* SAFE as the module defines it: string.ascii_letters + string.digits
SAFE_initial == ascii_lowercase \cup ascii_uppercase \cup digits

NoResult == [called |-> FALSE, err |-> "", val |-> << >>]
NoEscape == [called |-> FALSE, err |-> "", val |-> << >>, default_safe |-> FALSE,
             safe |-> {}, escape_char |-> ESCAPE_CHAR, allow_collisions |-> FALSE]
NoVerdict == [called |-> FALSE, val |-> FALSE]

\* the codec variables when no codec call is modelled
IdleCodec ==
    SAFE = SAFE_initial /\ text = << >> /\ esc = NoEscape /\ rev = NoResult /\ old = NoVerdict

InitSlug ==
    /\ arg_name \in SlugNames
    /\ arg_max_length = None
    /\ slug = NotCalled
    /\ IdleCodec
    /\ IdleMig

\* the caller's safe_slug(name, max_length=m)
DoSafeSlug(m) ==
    /\ ~slug.called
    /\ arg_max_length' = m
    /\ slug' = [called |-> TRUE, branch |-> safe_slug_branch(arg_name, m),
                err |-> safe_slug(arg_name, m).err, val |-> safe_slug(arg_name, m).val]
    /\ UNCHANGED <<arg_name, codecVars, migVars>>

\* safe_slug(name)
CallSafeSlug == DoSafeSlug(None)

\* safe_slug(name, max_length=m)
CallSafeSlugMax == \E m \in (_hash_length + 3)..MaxMaxLength : DoSafeSlug(m)

NextSlug == CallSafeSlug \/ CallSafeSlugMax

SpecSlug == InitSlug /\ [][NextSlug]_vars

(***************************************************************************)
(* Calls of escape, revert_escape and is_old_schema on drawn texts         *)
(***************************************************************************)
MaxText == 3

\* 'a', '1', 'A', '-', a control character, a two-byte character
CodecAlphabet == {97, 49, 65, Hyphen, Newline, 233}

\* safe sets a caller passes instead of the default: without and with '-'
CallerSafeSets == {_escape_slug_safe_chars, _escape_slug_safe_chars \cup {Hyphen}}

\* escape characters a caller passes: '-' and '_'
EscapeChars == {Hyphen, 95}

\* is_old_schema(name) of processing_dir.py: a decoding error is caught and
\* answered with False
is_old_schema(name) ==
    LET user_name == revert_escape(name, ESCAPE_CHAR)
    IN  IF user_name.err # "" THEN FALSE
        ELSE escape_slug(user_name.val) = name

InitCodec ==
    /\ SAFE = SAFE_initial
    /\ text \in StringsUpTo(CodecAlphabet, MaxText)
    /\ esc = NoEscape
    /\ rev = NoResult
    /\ old = NoVerdict
    /\ IdleSlug
    /\ IdleMig

\* the outcome of escape(text, safe, c, allow) recorded with its arguments
EscapeCall(safe, is_default, c, allow) ==
    LET r == escape(text, safe, c, allow)
    IN  /\ esc' = [called |-> TRUE, err |-> r.err, val |-> r.val,
                   default_safe |-> is_default, safe |-> safe,
                   escape_char |-> c, allow_collisions |-> allow]
        /\ SAFE' = IF is_default THEN r.safe ELSE SAFE
        /\ rev' = NoResult
        /\ UNCHANGED <<text, old, slugVars, migVars>>

\* escape(text, escape_char=c, allow_collisions=allow): safe is the module's
\* SAFE object itself, so what the call adds to it stays
CallEscapeDefaultSafe ==
    \E c \in EscapeChars, allow \in BOOLEAN : EscapeCall(SAFE, TRUE, c, allow)

\* escape(text, safe=s, escape_char=c, allow_collisions=allow) with a set of
\* the caller's own
CallEscapeCallerSafe ==
    \E s \in CallerSafeSets, c \in EscapeChars, allow \in BOOLEAN :
        EscapeCall(s, FALSE, c, allow)

\* revert_escape(escaped, escape_char) on the string escape returned
CallRevertEscape ==
    /\ esc.called /\ esc.err = "" /\ ~rev.called
    /\ rev' = [called |-> TRUE] @@ revert_escape(esc.val, esc.escape_char)
    /\ UNCHANGED <<SAFE, text, esc, old, slugVars, migVars>>

\* is_old_schema(escape_slug(text))
CallIsOldSchema ==
    /\ ~old.called
    /\ old' = [called |-> TRUE, val |-> is_old_schema(escape_slug(text))]
    /\ UNCHANGED <<SAFE, text, esc, rev, slugVars, migVars>>

NextCodec ==
    \/ CallEscapeDefaultSafe
    \/ CallEscapeCallerSafe
    \/ CallRevertEscape
    \/ CallIsOldSchema

SpecCodec == InitCodec /\ [][NextCodec]_vars

(***************************************************************************)
(* The tree under a prod root and the calls that change it                 *)
(*                                                                         *)
(* A tree maps each existing path (a sequence of names below the prod      *)
(* root) to its kind and to the identity of the node, which is the path    *)
(* it had before any run.                                                  *)
(***************************************************************************)
\* os.path.dirname(path)
dirname(path) == SubSeq(path, 1, Len(path) - 1)

\* os.path.basename(path)
basename(path) == path[Len(path)]

\* p is path q or an ancestor of it
IsPrefix(p, q) == Len(p) <= Len(q) /\ SubSeq(q, 1, Len(p)) = p

\* os.path.exists(path); the prod root itself exists
exists(tree, path) == path = << >> \/ path \in DOMAIN tree

\* os.path.isdir(path)
isdir(tree, path) == path = << >> \/ (path \in DOMAIN tree /\ tree[path].kind = "dir")

\* the paths directly inside a directory
children(tree, path) == {q \in DOMAIN tree : Len(q) = Len(path) + 1 /\ IsPrefix(path, q)}

\* os.listdir(path), as a set
listdir(tree, path) == {basename(q) : q \in children(tree, path)}

\* the tree after src and all below it has been put at dst, replacing dst
MoveTree(tree, src, dst) ==
    LET keep == {q \in DOMAIN tree : ~IsPrefix(src, q) /\ ~IsPrefix(dst, q)}
        moved == {dst \o SubSeq(q, Len(src) + 1, Len(q)) :
                    q \in {r \in DOMAIN tree : IsPrefix(src, r)}}
    IN  [q \in keep \cup moved |->
            IF q \in keep THEN tree[q]
            ELSE tree[src \o SubSeq(q, Len(dst) + 1, Len(q))]]

\* os.rename(src, dst) on a POSIX host: the outcome and the tree after it.
\* An empty directory at dst is silently replaced by a directory, a file at
\* dst by a file; every other existing dst is an OSError.  fail is a failure
\* of the host (permissions, I/O), which leaves the tree alone.
os_rename(tree, src, dst, fail) ==
    IF \/ fail
       \/ ~exists(tree, src) \/ src = << >>
       \/ ~isdir(tree, dirname(dst))
       \/ (IsPrefix(src, dst) /\ src # dst)
    THEN [ok |-> FALSE, tree |-> tree]
    ELSE IF src = dst THEN [ok |-> TRUE, tree |-> tree]
    ELSE IF dst \in DOMAIN tree
    THEN IF \/ (/\ tree[src].kind = "dir" /\ tree[dst].kind = "dir"
                /\ children(tree, dst) = {})
            \/ (tree[src].kind = "file" /\ tree[dst].kind = "file")
         THEN [ok |-> TRUE, tree |-> MoveTree(tree, src, dst)]
         ELSE [ok |-> FALSE, tree |-> tree]
    ELSE [ok |-> TRUE, tree |-> MoveTree(tree, src, dst)]

\* shutil.move(src, dst): into dst when dst is a directory (an error if the
\* name is taken there), else an os.rename onto dst
shutil_move(tree, src, dst, fail) ==
    IF isdir(tree, dst) /\ src # dst
    THEN LET real_dst == dst \o <<basename(src)>>
         IN  IF exists(tree, real_dst) THEN [ok |-> FALSE, tree |-> tree]
             ELSE os_rename(tree, src, real_dst, fail)
    ELSE os_rename(tree, src, dst, fail)

(***************************************************************************)
(* processing_dir.py                                                       *)
(***************************************************************************)
OLD_HOME == <<95, 111, 108, 100, 95, 104, 111, 109, 101>>
SHARED == <<95, 115, 104, 97, 114, 101, 100>>

\* exclude_dir_lists, by default ["_shared"]
exclude_dir_lists == {SHARED}

\* "if force: shutil.move(path, dest)" done whatever force is
move_always(tree, force, src, dst, fail) == shutil_move(tree, src, dst, fail)

\* "if force: shutil.move(path, dest)"
move_if_force(tree, force, src, dst, fail) ==
    IF force THEN shutil_move(tree, src, dst, fail) ELSE [ok |-> TRUE, tree |-> tree]

\* "if force: os.rename(...)" done whatever force is
rename_always(tree, force, src, dst, fail) == os_rename(tree, src, dst, fail)

\* "if force: os.rename(src, dst)"
rename_if_force(tree, force, src, dst, fail) ==
    IF force THEN os_rename(tree, src, dst, fail) ELSE [ok |-> TRUE, tree |-> tree]

\* the name process_subdir_name computes for a legacy name
new_name_of(name) == safe_slug(revert_escape(name, Hyphen).val, None).val

\* process_subdir_name(name, path, force): the plan selected, the tree after
\* the call, and which of the two steps of a merge went through.  fail_first
\* and fail_second are host failures of the first and the second call that
\* changes the tree; kill ends the process between the two steps of a merge.
process_subdir_name(tree, name, path, force, fail_first, fail_second, kill) ==
    IF ~is_old_schema(name)
    THEN [plan |-> "skip-already-new", tree |-> tree, moved |-> FALSE,
          renamed |-> FALSE, killed |-> FALSE, target |-> << >>]
    ELSE LET new_name_path == dirname(path) \o <<new_name_of(name)>>
         IN  IF new_name_path = path
             THEN [plan |-> "skip-no-op", tree |-> tree, moved |-> FALSE,
                   renamed |-> FALSE, killed |-> FALSE, target |-> new_name_path]
             ELSE IF exists(tree, new_name_path) /\ isdir(tree, new_name_path)
             THEN LET dest == new_name_path \o <<name>>
                      m == move_if_force(tree, force, path, dest, fail_first)
                      r == rename_if_force(m.tree, force, dest,
                                           new_name_path \o <<OLD_HOME>>, fail_second)
                  IN  IF ~m.ok
                      THEN [plan |-> "merge-into-existing", tree |-> tree,
                            moved |-> FALSE, renamed |-> FALSE, killed |-> FALSE,
                            target |-> new_name_path]
                      ELSE IF force /\ kill
                      THEN [plan |-> "merge-into-existing", tree |-> m.tree,
                            moved |-> TRUE, renamed |-> FALSE, killed |-> TRUE,
                            target |-> new_name_path]
                      ELSE [plan |-> "merge-into-existing", tree |-> r.tree,
                            moved |-> force, renamed |-> force /\ r.ok,
                            killed |-> FALSE, target |-> new_name_path]
             ELSE LET r == rename_if_force(tree, force, path, new_name_path, fail_first)
                  IN  [plan |-> "rename-direct", tree |-> r.tree, moved |-> FALSE,
                       renamed |-> force /\ r.ok, killed |-> FALSE,
                       target |-> new_name_path]

\* one iteration of the loop of rename_subdirs over os.listdir(base_dir)
loop_body(tree, subdir, force, fail_first, fail_second, kill) ==
    IF isdir(tree, <<subdir>>) /\ subdir \notin exclude_dir_lists
    THEN process_subdir_name(tree, subdir, <<subdir>>, force, fail_first, fail_second, kill)
    ELSE [plan |-> "not-processed", tree |-> tree, moved |-> FALSE, renamed |-> FALSE,
          killed |-> FALSE, target |-> << >>]

(***************************************************************************)
(* Runs of rename_subdirs over one prod root: a dry run, then a force run  *)
(* of the same listing, and after a killed force run a second force run    *)
(***************************************************************************)
MaxNodes == 3

\* directory names: "a-2d41" (legacy name of "a-41"), "a-41" (legacy name of
\* "aA"), "ab" (its own slug), the slug of "aA", and a plain file "f"
NameA == <<97, 45, 50, 100, 52, 49>>
NameB == <<97, 45, 52, 49>>
NameC == <<97, 98>>
NameD == new_name_of(NameB)
NameF == <<102>>

\* the paths a tree may have before the first run
PathUniverse ==
    { <<NameA>>, <<NameB>>, <<NameC>>, <<NameD>>, <<SHARED>>, <<NameF>>,
      <<NameA, NameF>>,
      <<NameB, OLD_HOME>>, <<NameB, NameA>>, <<NameB, NameF>>,
      <<NameD, OLD_HOME>>, <<NameD, NameB>>,
      <<NameB, OLD_HOME, NameF>>, <<NameB, NameA, NameF>>, <<NameD, NameB, NameF>> }

\* the trees a run may start from: every path has its parent, "f" is a file
InitialTrees ==
    LET closed(P) == \A q \in P : Len(q) = 1 \/ dirname(q) \in P
    IN  { [q \in P |-> [kind |-> IF basename(q) = NameF THEN "file" ELSE "dir",
                        id |-> q]] :
            P \in {Q \in SUBSET PathUniverse : Cardinality(Q) <= MaxNodes /\ closed(Q)} }

\* the orders in which os.listdir may return a set of names
Orders(S) ==
    {o \in [1..Cardinality(S) -> S] : \A i, j \in 1..Cardinality(S) : i # j => o[i] # o[j]}

Init ==
    /\ fs0 \in InitialTrees
    /\ fs = fs0
    /\ listing \in Orders(listdir(fs0, << >>))
    /\ phase = "idle"
    /\ pos = 1
    /\ planDry = << >> /\ planForce = << >> /\ planShadow = << >>
    /\ last = NoLast
    /\ interrupted = NoInterrupt
    /\ IdleSlug
    /\ IdleCodec

\* rename_subdirs(force=False) up to its loop
StartDryRun ==
    /\ phase = "idle"
    /\ phase' = "dry"
    /\ pos' = 1
    /\ UNCHANGED <<fs0, fs, listing, planDry, planForce, planShadow, last, interrupted,
                   slugVars, codecVars>>

\* rename_subdirs(force=True) up to its loop, on the tree the dry run left;
\* the directory is listed in the order the dry run saw
StartForceRun ==
    /\ phase = "dry_done"
    /\ phase' = "force"
    /\ pos' = 1
    /\ UNCHANGED <<fs0, fs, listing, planDry, planForce, planShadow, last, interrupted,
                   slugVars, codecVars>>

\* rename_subdirs(force=True) once more after the force run was killed; this
\* run is not killed
StartRerun ==
    /\ phase = "killed"
    /\ phase' = "rerun"
    /\ listing' \in Orders(listdir(fs, << >>))
    /\ pos' = 1
    /\ UNCHANGED <<fs0, fs, planDry, planForce, planShadow, last, interrupted,
                   slugVars, codecVars>>

\* whether a call that changes the tree may fail on the host: a dry run
\* makes no such call
HostFailures(ph) == IF ph = "dry" THEN {FALSE} ELSE BOOLEAN

\* whether the process may be killed inside a merge: the first force run only
Kills(ph) == IF ph = "force" THEN BOOLEAN ELSE {FALSE}

\* one iteration of the loop of rename_subdirs
ProcessEntry ==
    /\ phase \in {"dry", "force", "rerun"}
    /\ pos <= Len(listing)
    /\ \E fail_first \in HostFailures(phase), fail_second \in HostFailures(phase),
          kill \in Kills(phase) :
         LET force == phase # "dry"
             subdir == listing[pos]
             r == loop_body(fs, subdir, force, fail_first, fail_second, kill)
             shadow == loop_body(fs, subdir, FALSE, FALSE, FALSE, FALSE)
         IN  /\ fs' = r.tree
             /\ last' = [name |-> subdir, plan |-> r.plan, force |-> force,
                         moved |-> r.moved, renamed |-> r.renamed,
                         target |-> r.target, before |-> fs]
             /\ planDry' = IF phase = "dry" THEN Append(planDry, r.plan) ELSE planDry
             /\ planForce' = IF phase = "force"
                             THEN Append(planForce, [plan |-> r.plan, before |-> fs])
                             ELSE planForce
             /\ planShadow' = IF phase = "force" THEN Append(planShadow, shadow.plan)
                              ELSE planShadow
             /\ IF r.killed
                THEN /\ phase' = "killed"
                     /\ interrupted' = [happened |-> TRUE, name |-> subdir,
                                        id |-> fs[<<subdir>>].id,
                                        target_id |-> fs[r.target].id]
                ELSE UNCHANGED <<phase, interrupted>>
             /\ pos' = pos + 1
    /\ UNCHANGED <<fs0, listing, slugVars, codecVars>>

\* the loop of rename_subdirs is over and the call returns
FinishRun ==
    /\ phase \in {"dry", "force", "rerun"}
    /\ pos > Len(listing)
    /\ phase' = IF phase = "dry" THEN "dry_done"
                ELSE IF phase = "force" THEN "force_done" ELSE "rerun_done"
    /\ UNCHANGED <<fs0, fs, listing, pos, planDry, planForce, planShadow, last,
                   interrupted, slugVars, codecVars>>

Next ==
    \/ StartDryRun
    \/ StartForceRun
    \/ StartRerun
    \/ ProcessEntry
    \/ FinishRun

Spec == Init /\ [][Next]_vars

(***************************************************************************)
(* Properties of safe_slug                                                 *)
(***************************************************************************)
\* length 1..63, starts with a lowercase letter, ends with a lowercase letter
\* or digit, only lowercase letters, digits and hyphens
ObjectNameShape(s) ==
    /\ Len(s) >= 1 /\ Len(s) <= 63
    /\ s[1] \in 97..122
    /\ s[Len(s)] \in (97..122) \cup (48..57)
    /\ \A i \in 1..Len(s) : s[i] \in (97..122) \cup (48..57) \cup {45}

\* C5: safe_slug(s) with the default predicate and the default max_length
\* returns, for every string s, a string that satisfies is_valid_object_name:
\* length 1..63, a lowercase letter first, a lowercase letter or digit last,
\* only lowercase letters, digits and hyphens.
C5_SlugValid ==
    (slug.called /\ arg_max_length = None) =>
        /\ slug.err = ""
        /\ is_valid_object_name(slug.val)
        /\ ObjectNameShape(slug.val)

\* safe_slug(s) fell back to strip_and_hash on a name longer than the name
\* budget that does not start with a letter, so it was cut and prefixed
C5_Witness ==
    /\ slug.called /\ arg_max_length = None
    /\ slug.branch = "hash_invalid"
    /\ Len(arg_name) > 32 - (_hash_length + 3)
    /\ arg_name[1] \in digits
    /\ SubSeq(slug.val, 1, 2) = <<120, Hyphen>>

\* positions at which sub occurs in s
Occurrences(s, sub) ==
    {i \in 1..(Len(s) - Len(sub) + 1) : SubSeq(s, i, i + Len(sub) - 1) = sub}

\* C8: whenever safe_slug takes the hash-fallback path with max_length >= 12,
\* the result contains exactly one occurrence of '---' (never '----') and the
\* text after it is exactly 8 lowercase hexadecimal characters.
C8_HashFallbackFormat ==
    (slug.called /\ slug.branch # "identity" /\ or_32(arg_max_length) >= 12) =>
        /\ slug.err = ""
        /\ Cardinality(Occurrences(slug.val, <<Hyphen, Hyphen, Hyphen>>)) = 1
        /\ ~Contains(slug.val, <<Hyphen, Hyphen, Hyphen, Hyphen>>)
        /\ \A i \in Occurrences(slug.val, <<Hyphen, Hyphen, Hyphen>>) :
              /\ Len(slug.val) - (i + 2) = 8
              /\ \A k \in (i + 3)..Len(slug.val) : slug.val[k] \in digits \cup (97..102)

(***************************************************************************)
(* Properties of the codec                                                 *)
(***************************************************************************)
\* C6: with the default safe set (ASCII letters and digits, without the
\* marker '-'), revert_escape(escape(t)) returns t for every text t.
C6_EscapeRoundTrip ==
    (/\ rev.called /\ esc.default_safe /\ esc.safe = SAFE_initial
     /\ esc.escape_char = ESCAPE_CHAR /\ ~esc.allow_collisions) =>
        (rev.err = "" /\ rev.val = text)

\* C7: is_old_schema(escape_slug(u)) is True for every raw name u.
C7_ClassifierFixedPoint == old.called => old.val

\* C9: after any sequence of escape calls, escape returns a string and never
\* raises; with the marker in the safe set and allow_collisions false it
\* proceeds with the marker removed from the safe set.
C9_EscapeNeverRaises ==
    esc.called =>
        /\ esc.err = ""
        /\ (esc.escape_char \in esc.safe /\ ~esc.allow_collisions) =>
              esc.val = escape_chars(text, esc.safe \ {esc.escape_char}, esc.escape_char)

(***************************************************************************)
(* Properties of the migration                                             *)
(***************************************************************************)
\* the elements of a sequence
Range(seq) == {seq[i] : i \in 1..Len(seq)}

\* C1: a run with force=False leaves the tree exactly as it was before the
\* run, whatever plan is selected for each entry.
C1_DryRunNoChange == phase \in {"dry", "dry_done"} => fs = fs0

\* a finished dry run that selected a merge for one entry and a direct rename
\* for another
C1_Witness ==
    /\ phase = "dry_done"
    /\ "merge-into-existing" \in Range(planDry)
    /\ "rename-direct" \in Range(planDry)

\* C2: during and after a force run, failed moves and renames included, every
\* directory that existed before the run still exists with its contents, at
\* its old path or a new one; none has been deleted or overwritten.
C2_NoDirectoryLost ==
    phase \in {"force", "force_done"} =>
        \A p \in DOMAIN fs0 :
            fs0[p].kind = "dir" =>
                \E q \in DOMAIN fs :
                    /\ fs[q].id = p
                    /\ \A p2 \in DOMAIN fs0 :
                          IsPrefix(p, p2) =>
                              \E q2 \in DOMAIN fs : fs[q2].id = p2 /\ IsPrefix(q, q2)

\* C3: after a merge of a force run in which the move and the rename both
\* succeeded, nothing is at the entry's original path, nothing is at
\* <target>/<original basename>, and <target>/_old_home is exactly the
\* directory that was at the original path.
C3_MergeOutcome ==
    (/\ last.force /\ last.plan = "merge-into-existing"
     /\ last.moved /\ last.renamed) =>
        /\ ~exists(fs, <<last.name>>)
        /\ ~exists(fs, last.target \o <<last.name>>)
        /\ exists(fs, last.target \o <<OLD_HOME>>)
        /\ fs[last.target \o <<OLD_HOME>>].id = last.before[<<last.name>>].id

\* C4 as claimed: for every entry, the plan of the force run is the plan of
\* the dry run of the same tree and listing, also after earlier entries of
\* the force run were renamed or moved.
C4_SamePlans ==
    \A i \in 1..Len(planForce) : planForce[i].plan = planDry[i]

\* C4 as amended: for every entry, the force run selects the plan a dry run
\* selects on the tree the force run has reached; so the two runs select
\* the same plan for every entry processed while the tree is still as the
\* force run found it, the first entry it moves or renames included.
C4_SamePlansOnSameTree ==
    \A i \in 1..Len(planForce) :
        /\ planForce[i].plan = planShadow[i]
        /\ planForce[i].before = planForce[1].before =>
              planForce[i].plan = planDry[i]

\* the force run merged an entry as the dry run said, changing the tree, and
\* went on to a later entry
C4_Witness ==
    /\ Len(planForce) >= 2
    /\ planForce[1].plan = "merge-into-existing"
    /\ planDry[1] = "merge-into-existing"
    /\ planForce[2].before # planForce[1].before

\* C10: when a force run was killed between the move and the rename of a
\* merge, a complete second force run ends with that directory being the
\* _old_home of the target directory and nothing at <target>/<original
\* basename>.
C10_InterruptedMergeRecovered ==
    (phase = "rerun_done" /\ interrupted.happened) =>
        \E q \in DOMAIN fs :
            /\ fs[q].id = interrupted.id
            /\ Len(q) >= 2
            /\ basename(q) = OLD_HOME
            /\ fs[dirname(q)].id = interrupted.target_id
            /\ ~exists(fs, dirname(q) \o <<interrupted.name>>)

====
